---- MODULE Spec2Model ----
(***************************************************************************)
(* Model of src/embeddings/src/lib.rs: the HTTP component that ingests     *)
(* pages (summarize, embed, insert), lists and deletes paragraph rows and  *)
(* ranks the stored rows against a query sentence by cosine similarity.    *)
(*                                                                         *)
(* The sqlite table, the inferencing model and the embedding model are     *)
(* external: every call to them is an input of the handler that makes it   *)
(* (it succeeds or fails, and the embedding model answers with vectors     *)
(* drawn from Vectors).                                                    *)
(*                                                                         *)
(* f32 arithmetic: Vectors holds only vectors with small integer           *)
(* components and an integer Euclidean norm, so the dot product, the       *)
(* squared norms, sqrt and the product of the norms are exact in f32 and   *)
(* the quotient is the correctly rounded value of a rational with small    *)
(* numerator and denominator.  Two such quotients compare exactly as the   *)
(* rationals do; a similarity is kept as a reduced fraction num/den, and   *)
(* 0/0 is NaN.                                                             *)
(***************************************************************************)
EXTENDS Integers, Sequences, FiniteSets, TLC

VARIABLES db, req, env, resp

vars == <<db, req, env, resp>>

\* ---------------------------------------------------------------- bounds
MaxBatch == 2
MaxRows == 2

\* ---------------------------------------------------------------- values
References == {"r1", "r2"}
Texts == {"t1"}
Sentences == {"q1"}
Vectors == {<<0, 0>>, <<3, 4>>, <<5>>}

SeqsUpTo(S, n) == UNION {[1..k -> S] : k \in 0..n}

Min(a, b) == IF a <= b THEN a ELSE b

Abs(a) == IF a < 0 THEN -a ELSE a

RECURSIVE GCD(_, _)
GCD(a, b) == IF b = 0 THEN a ELSE GCD(b, a % b)

\* struct Page: only url and text reach the handler's logic
Page == [url : References, text : Texts]

\* struct Paragraph
Paragraph == [reference : References, text : Texts]

to_paragraph(page) == [reference |-> page.url, text |-> page.text]

\* the text the inferencing model answers with for a prompt built around text
Llama2Chat == [t \in Texts |-> IF t = "t1" THEN "s1" ELSE "s2"]

summarize_text(text, inferOk) ==
    IF inferOk THEN [ok |-> TRUE, text |-> Llama2Chat[text]]
    ELSE [ok |-> FALSE, text |-> ""]

\* paragraphs.iter().filter_map(|e| summarize_text(&e.text).ok()).collect()
RECURSIVE summaries_of(_, _)
summaries_of(paragraphs, sumOk) ==
    IF Len(paragraphs) = 0 THEN <<>>
    ELSE LET s == summarize_text(Head(paragraphs).text, Head(sumOk))
         IN (IF s.ok THEN <<s.text>> ELSE <<>>)
            \o summaries_of(Tail(paragraphs), Tail(sumOk))

\* answers of generate_embeddings to n inputs: an error, or one vector each
EmbeddingsResults(n) ==
    {[ok |-> FALSE, embeddings |-> <<>>]}
    \cup {[ok |-> TRUE, embeddings |-> e] : e \in [1..n -> Vectors]}

\* answers of generate_embeddings to the single query sentence, the
\* answer without any vector included
QueryEmbeddingsResults ==
    {[ok |-> FALSE, embeddings |-> <<>>]}
    \cup {[ok |-> TRUE, embeddings |-> e] : e \in SeqsUpTo(Vectors, 1)}

\* serde_json::to_vec(&json!(res)): a JSON array of the (finite) numbers
to_blob(vec) == [json |-> vec]

\* serde_json::from_value(serde_json::from_slice(b)): the array read back
from_blob(blob) == blob.json

\* ------------------------------------------------------------- responses
Response(status) ==
    [status |-> status, num_rec |-> 0, sentence |-> "", results |-> <<>>,
     paragraphs |-> <<>>, log |-> ""]

NoRequest == [op |-> "none", pages |-> <<>>, sentence |-> "", reference |-> ""]

NoEnv ==
    [connOk |-> TRUE, sumOk |-> <<>>,
     embed |-> [ok |-> TRUE, embeddings |-> <<>>], insOk |-> <<>>,
     delOk |-> TRUE]

\* ---------------------------------------------------------------- ingest
\* the three query parameters of the INSERT
insert_params_summary(e, res) ==
    [reference |-> e.reference, text |-> Llama2Chat[e.text],
     embedding |-> to_blob(res)]

insert_params(e, res) ==
    [reference |-> e.reference, text |-> e.text, embedding |-> to_blob(res)]

\* for (e, res) in paragraphs.iter().zip(embeddings) { let _ = INSERT }
RECURSIVE insert_zip(_, _, _, _)
insert_zip(rows, paragraphs, embeddings, insOk) ==
    IF Len(paragraphs) = 0 \/ Len(embeddings) = 0 THEN rows
    ELSE insert_zip(
            IF Head(insOk)
            THEN Append(rows, insert_params(Head(paragraphs), Head(embeddings)))
            ELSE rows,
            Tail(paragraphs), Tail(embeddings), Tail(insOk))

store_paragraph_records_zip_count(rows, paragraphs, embeddings, connOk, insOk) ==
    IF ~connOk THEN [ok |-> FALSE, db |-> rows, num_rec |-> 0]
    ELSE [ok |-> TRUE,
          db |-> insert_zip(rows, paragraphs, embeddings, insOk),
          num_rec |-> Min(Len(paragraphs), Len(embeddings))]

store_paragraph_records(rows, paragraphs, embeddings, connOk, insOk) ==
    IF ~connOk THEN [ok |-> FALSE, db |-> rows, num_rec |-> 0]
    ELSE [ok |-> TRUE,
          db |-> insert_zip(rows, paragraphs, embeddings, insOk),
          num_rec |-> Len(paragraphs)]

handle_create_store_first(rows, pages, sumOk, embed, connOk, insOk) ==
    LET paragraphs == [i \in 1..Len(pages) |-> to_paragraph(pages[i])]
        zeros == [i \in 1..Len(pages) |-> <<0, 0>>]
        allOk == [i \in 1..Len(pages) |-> TRUE]
    IN  IF ~embed.ok
        THEN [db |-> insert_zip(rows, paragraphs, zeros, allOk),
              resp |-> Response("Err")]
        ELSE LET st == store_paragraph_records(rows, paragraphs,
                            embed.embeddings, connOk, insOk)
             IN  IF st.ok
                 THEN [db |-> st.db,
                       resp |-> [Response("CREATED") EXCEPT
                                    !.num_rec = st.num_rec]]
                 ELSE [db |-> st.db,
                       resp |-> Response("INTERNAL_SERVER_ERROR")]

\* fn create_paragraphs_records, from the parsed pages on
handle_create(rows, pages, sumOk, embed, connOk, insOk) ==
    LET paragraphs == [i \in 1..Len(pages) |-> to_paragraph(pages[i])]
    IN  IF ~embed.ok
        THEN [db |-> rows, resp |-> Response("Err")]
        ELSE LET st == store_paragraph_records(rows, paragraphs,
                            embed.embeddings, connOk, insOk)
             IN  IF st.ok
                 THEN [db |-> st.db,
                       resp |-> [Response("CREATED") EXCEPT
                                    !.num_rec = st.num_rec]]
                 ELSE [db |-> st.db,
                       resp |-> Response("INTERNAL_SERVER_ERROR")]

create_paragraphs_records ==
    \E pages \in SeqsUpTo(Page, MaxBatch) :
    \E sumOk \in [1..Len(pages) -> BOOLEAN] :
    LET paragraphs == [i \in 1..Len(pages) |-> to_paragraph(pages[i])]
        summaries == summaries_of(paragraphs, sumOk)
    IN  \E embed \in EmbeddingsResults(Len(summaries)) :
        \E connOk \in BOOLEAN :
        \E insOk \in [1..Min(Len(pages), Len(embed.embeddings)) -> BOOLEAN] :
            /\ Len(db) + Len(pages) <= MaxRows
            /\ ~embed.ok => connOk
            /\ ~connOk => \A i \in DOMAIN insOk : insOk[i]
            /\ LET out == handle_create(db, pages, sumOk, embed, connOk, insOk)
               IN  /\ db' = out.db
                   /\ resp' = out.resp
            /\ req' = [NoRequest EXCEPT !.op = "ingest", !.pages = pages]
            /\ env' = [NoEnv EXCEPT !.connOk = connOk, !.sumOk = sumOk,
                                    !.embed = embed, !.insOk = insOk]

\* ---------------------------------------------------------------- search
NaN == [nan |-> TRUE, num |-> 0, den |-> 1]

Ratio(n, d) ==
    LET g == GCD(Abs(n), d)
    IN  [nan |-> FALSE, num |-> n \div g, den |-> d \div g]

\* vec1.iter().zip(vec2.iter()).map(|(x, y)| x * y).sum()
RECURSIVE dot_product(_, _)
dot_product(vec1, vec2) ==
    IF Len(vec1) = 0 \/ Len(vec2) = 0 THEN 0
    ELSE Head(vec1) * Head(vec2) + dot_product(Tail(vec1), Tail(vec2))

\* vec.iter().map(|x| x * x).sum()
RECURSIVE sum_squares(_)
sum_squares(vec) ==
    IF Len(vec) = 0 THEN 0
    ELSE Head(vec) * Head(vec) + sum_squares(Tail(vec))

\* f32::sqrt of a perfect square
sqrt(n) == CHOOSE r \in 0..n : r * r = n

\* fn cosine_similarity; a zero norm makes the quotient 0.0 / 0.0
cosine_similarity(vec1, vec2) ==
    LET norm1 == sqrt(sum_squares(vec1))
        norm2 == sqrt(sum_squares(vec2))
    IN  IF norm1 * norm2 = 0 THEN NaN
        ELSE Ratio(dot_product(vec1, vec2), norm1 * norm2)

\* a > b on two similarities that are numbers
Greater(a, b) == a.num * b.den > b.num * a.den

GreaterOrEqual(a, b) == a.num * b.den >= b.num * a.den

\* one step of the sort: x moves left past its strictly smaller elements
RECURSIVE insert_tail_unstable(_, _)
insert_tail_unstable(sorted, x) ==
    IF Len(sorted) = 0 THEN <<x>>
    ELSE LET last == sorted[Len(sorted)]
         IN  IF GreaterOrEqual(x.similarity, last.similarity)
             THEN Append(insert_tail_unstable(
                            SubSeq(sorted, 1, Len(sorted) - 1), x), last)
             ELSE Append(sorted, x)

RECURSIVE insert_tail(_, _)
insert_tail(sorted, x) ==
    IF Len(sorted) = 0 THEN <<x>>
    ELSE LET last == sorted[Len(sorted)]
         IN  IF Greater(x.similarity, last.similarity)
             THEN Append(insert_tail(SubSeq(sorted, 1, Len(sorted) - 1), x),
                         last)
             ELSE Append(sorted, x)

\* results.sort_by(|a, b| b.similarity.partial_cmp(&a.similarity).unwrap())
\* on results every comparison of which is Some: a stable sort, descending
RECURSIVE sort_by(_)
sort_by(results) ==
    IF Len(results) = 0 THEN <<>>
    ELSE insert_tail(sort_by(SubSeq(results, 1, Len(results) - 1)),
                     results[Len(results)])

\* partial_cmp is None on a NaN; a slice of two or more elements has every
\* element compared at least once, a shorter one is never compared
sort_unwrap_panics(results) ==
    /\ Len(results) >= 2
    /\ \E i \in 1..Len(results) : results[i].similarity.nan

\* fn get_compare_set: the rows in the table's order, embeddings decoded
get_compare_set(rows, connOk) ==
    IF ~connOk THEN [ok |-> FALSE, records |-> <<>>]
    ELSE [ok |-> TRUE,
          records |-> [i \in 1..Len(rows) |->
                        [reference |-> rows[i].reference,
                         text |-> rows[i].text,
                         embedding |-> from_blob(rows[i].embedding)]]]

\* fn get_similar_paragraphs and the response get_paragraphs builds from it
get_similar_paragraphs(rows, sentence, connOk, embed) ==
    LET set == get_compare_set(rows, connOk)
    IN  IF ~set.ok THEN Response("Err")
        ELSE IF ~embed.ok THEN Response("Err")
        ELSE IF Len(embed.embeddings) = 0 THEN Response("panic")
        ELSE LET embedded_sentence == embed.embeddings[1]
                 paragraphs == set.records
                 results == [i \in 1..Len(paragraphs) |->
                    [similarity |-> cosine_similarity(
                                        paragraphs[i].embedding,
                                        embedded_sentence),
                     paragraph |-> [reference |-> paragraphs[i].reference,
                                    text |-> paragraphs[i].text]]]
             IN  IF sort_unwrap_panics(results) THEN Response("panic")
                 ELSE [Response("OK") EXCEPT !.sentence = sentence,
                                             !.results = sort_by(results)]

\* GET /embeddings?sentence=...
get_paragraphs_query ==
    \E sentence \in Sentences :
    \E connOk \in BOOLEAN :
    \E embed \in QueryEmbeddingsResults :
        /\ ~connOk => (embed.ok /\ embed.embeddings = <<>>)
        /\ resp' = get_similar_paragraphs(db, sentence, connOk, embed)
        /\ req' = [NoRequest EXCEPT !.op = "search", !.sentence = sentence]
        /\ env' = [NoEnv EXCEPT !.connOk = connOk, !.embed = embed]
        /\ UNCHANGED db

\* ------------------------------------------------------------------ list
\* TryFrom<sqlite::Row> for Paragraph
row_to_paragraph(row) == [reference |-> row.reference, text |-> row.text]

\* the None arm of get_paragraphs: SELECT * FROM paragraphs
list_paragraphs(rows, connOk) ==
    IF ~connOk THEN Response("Err")
    ELSE [Response("OK") EXCEPT
            !.paragraphs = [i \in 1..Len(rows) |-> row_to_paragraph(rows[i])]]

\* GET /embeddings
get_paragraphs_all ==
    \E connOk \in BOOLEAN :
        /\ resp' = list_paragraphs(db, connOk)
        /\ req' = [NoRequest EXCEPT !.op = "list"]
        /\ env' = [NoEnv EXCEPT !.connOk = connOk]
        /\ UNCHANGED db

\* ---------------------------------------------------------------- delete
RECURSIVE delete_where(_, _)
delete_where(rows, reference) ==
    IF Len(rows) = 0 THEN <<>>
    ELSE (IF Head(rows).reference = reference THEN <<>> ELSE <<Head(rows)>>)
         \o delete_where(Tail(rows), reference)

\* fn delete_paragraph_record, the route always carrying :reference
handle_delete(rows, reference, connOk, delOk) ==
    IF ~connOk THEN [db |-> rows, resp |-> Response("Err")]
    ELSE [db |-> IF delOk THEN delete_where(rows, reference) ELSE rows,
          resp |-> [Response("OK") EXCEPT !.log = "Deleted one record"]]

\* DELETE /embeddings/:reference
delete_paragraph_record ==
    \E reference \in References :
    \E connOk \in BOOLEAN :
    \E delOk \in BOOLEAN :
        /\ ~connOk => delOk
        /\ LET out == handle_delete(db, reference, connOk, delOk)
           IN  /\ db' = out.db
               /\ resp' = out.resp
        /\ req' = [NoRequest EXCEPT !.op = "delete", !.reference = reference]
        /\ env' = [NoEnv EXCEPT !.connOk = connOk, !.delOk = delOk]

\* ------------------------------------------------------------------ spec
Init ==
    /\ db = <<>>
    /\ req = NoRequest
    /\ env = NoEnv
    /\ resp = Response("none")

Next ==
    \/ create_paragraphs_records
    \/ get_paragraphs_query
    \/ get_paragraphs_all
    \/ delete_paragraph_record

Spec == Init /\ [][Next]_vars

\* ---------------------------------------------------------------- helpers
\* the passages of the last ingest and those whose summarization succeeded
Submitted == [i \in 1..Len(req.pages) |-> to_paragraph(req.pages[i])]

RECURSIVE Flagged(_, _)
Flagged(seq, flags) ==
    IF Len(seq) = 0 \/ Len(flags) = 0 THEN <<>>
    ELSE (IF Head(flags) THEN <<Head(seq)>> ELSE <<>>)
         \o Flagged(Tail(seq), Tail(flags))

Surviving == Flagged(Submitted, env.sumOk)

\* the rows the last ingest appended to the table
Written ==
    LET n == Len(Flagged(env.insOk, env.insOk))
    IN  SubSeq(db, Len(db) - n + 1, Len(db))

Count(seq, x) == Cardinality({i \in 1..Len(seq) : seq[i] = x})

ParagraphsOf(seq) == [i \in 1..Len(seq) |-> seq[i].paragraph]

RowParagraphs == [i \in 1..Len(db) |-> [reference |-> db[i].reference,
                                        text |-> db[i].text]]

SearchReached ==
    /\ req.op = "search"
    /\ env.connOk
    /\ env.embed.ok
    /\ Len(env.embed.embeddings) > 0

RowSimilarity(i) ==
    cosine_similarity(from_blob(db[i].embedding), env.embed.embeddings[1])

\* ----------------------------------------------------------------- claims
\* C1: every row an ingest writes pairs the k-th surviving passage (the
\* k-th passage whose summarization succeeded) with the k-th embedding of
\* the batch result, which is the embedding of that passage's summary.
C1_RowsPairSurvivorWithItsEmbedding ==
    (req.op = "ingest" /\ resp.status = "CREATED") =>
        Written = Flagged(
            [k \in 1..Len(env.embed.embeddings) |->
                [reference |-> Surviving[k].reference,
                 text |-> Surviving[k].text,
                 embedding |-> to_blob(env.embed.embeddings[k])]],
            env.insOk)

\* C2: an ingest that got past the embedding call and opened the table
\* answers CREATED, and the count of a CREATED answer is the number of
\* passages submitted, whatever summarizations and inserts failed.
C2_CountIsSubmittedCount ==
    (req.op = "ingest" /\ env.embed.ok) =>
        /\ env.connOk => resp.status = "CREATED"
        /\ resp.status = "CREATED" => resp.num_rec = Len(req.pages)

C2_Witness ==
    /\ req.op = "ingest"
    /\ resp.status = "CREATED"
    /\ \E i \in 1..Len(env.sumOk) : ~env.sumOk[i]
    /\ \E i \in 1..Len(env.insOk) : ~env.insOk[i]
    /\ resp.num_rec = Len(req.pages)
    /\ Len(Written) < resp.num_rec

\* C3: an ingest whose batch embedding call fails ends in an error and
\* leaves the table exactly as it was.
C3_EmbeddingFailureStoresNothing ==
    [][(req'.op = "ingest" /\ ~env'.embed.ok) =>
            (resp'.status = "Err" /\ db' = db)]_vars

C3_Witness ==
    /\ req.op = "ingest"
    /\ ~env.embed.ok
    /\ Len(req.pages) > 0
    /\ \E i \in 1..Len(env.sumOk) : env.sumOk[i]
    /\ resp.status = "Err"
    /\ Len(db) > 0

\* C4: a search that read the table and got a query vector completes
\* (no panic), its results sorted non-increasing by similarity with every
\* NaN after every number.
C4_SearchSortedNaNLast ==
    SearchReached =>
        /\ resp.status = "OK"
        /\ \A i, j \in 1..Len(resp.results) :
            i < j =>
                LET a == resp.results[i].similarity
                    b == resp.results[j].similarity
                IN  /\ a.nan => b.nan
                    /\ (~a.nan /\ ~b.nan) => GreaterOrEqual(a, b)

\* C5: a delete(r) that answers OK leaves no row with reference r and the
\* other rows as they were; when no row had reference r it reports that
\* nothing was removed and leaves the table unchanged.
C5_DeleteRemovesAndReports ==
    [][(req'.op = "delete" /\ resp'.status = "OK") =>
        LET Other(row) == row.reference # req'.reference
        IN  /\ \A i \in 1..Len(db') : db'[i].reference # req'.reference
            /\ SelectSeq(db', Other) = SelectSeq(db, Other)
            /\ (\A i \in 1..Len(db) : db[i].reference # req'.reference) =>
                    (resp'.log # "Deleted one record" /\ db' = db)]_vars

\* C6: a passage that an ingest summarized, embedded and inserted is listed
\* with exactly its reference and text; a stored text is a submitted text
\* and never a summary, and a listed record has no embedding.
C6_RoundTrip ==
    /\ (req.op = "ingest" /\ resp.status = "CREATED") =>
            \A i \in 1..Len(req.pages) :
                (env.sumOk[i] /\ i <= Len(env.insOk) /\ env.insOk[i]) =>
                    \E j \in 1..Len(db) :
                        list_paragraphs(db, TRUE).paragraphs[j] =
                            [reference |-> req.pages[i].url,
                             text |-> req.pages[i].text]
    /\ \A j \in 1..Len(db) : db[j].text \in Texts
    /\ (req.op = "list" /\ resp.status = "OK") =>
            /\ Len(resp.paragraphs) = Len(db)
            /\ \A j \in 1..Len(db) :
                /\ DOMAIN resp.paragraphs[j] = {"reference", "text"}
                /\ resp.paragraphs[j].reference = db[j].reference
                /\ resp.paragraphs[j].text = db[j].text

C6_Witness ==
    /\ req.op = "ingest"
    /\ resp.status = "CREATED"
    /\ \E i \in 1..Len(req.pages) :
        /\ env.sumOk[i]
        /\ i <= Len(env.insOk)
        /\ env.insOk[i]
        /\ db[Len(db)].text = req.pages[i].text
        /\ db[Len(db)].text # Llama2Chat[req.pages[i].text]

\* C7: a search whose query-embedding call succeeds with zero vectors ends
\* in an error returned to the caller, not in a panic.
C7_NoVectorIsTypedError ==
    (req.op = "search" /\ env.connOk /\ env.embed.ok
        /\ Len(env.embed.embeddings) = 0) => resp.status = "Err"

\* C8: a search never answers with similarities when a stored embedding's
\* length differs from the query embedding's length.
C8_NoScoreOnLengthMismatch ==
    (SearchReached /\ resp.status = "OK") =>
        \A i \in 1..Len(db) :
            Len(from_blob(db[i].embedding)) = Len(env.embed.embeddings[1])

\* C9: in a search result, the records of equal similarity are in the order
\* in which the table's read returned their rows.
C9_TiesKeepRowOrder ==
    (SearchReached /\ resp.status = "OK") =>
        \A k \in 1..Len(db) :
            LET Tied(r) == r.similarity = RowSimilarity(k)
                tiedRows == {i \in 1..Len(db) :
                                RowSimilarity(i) = RowSimilarity(k)}
            IN  ParagraphsOf(SelectSeq(resp.results, Tied)) =
                    Flagged(RowParagraphs,
                            [i \in 1..Len(db) |-> i \in tiedRows])

C9_Witness ==
    /\ SearchReached
    /\ resp.status = "OK"
    /\ Len(resp.results) >= 2
    /\ \E i \in 1..Len(resp.results) - 1 :
        /\ resp.results[i].similarity = resp.results[i + 1].similarity
        /\ ~resp.results[i].similarity.nan
        /\ resp.results[i].paragraph # resp.results[i + 1].paragraph

\* C10: a search that read the table and got a query vector answers with
\* the query as sentence and one result per row carrying the row's
\* reference and text, and leaves the table unchanged; on an empty table
\* the results are empty.
C10_SearchReturnsEveryRow ==
    [][(SearchReached)' =>
        /\ resp'.status = "OK"
        /\ resp'.sentence = req'.sentence
        /\ Len(resp'.results) = Len(db)
        /\ \A p \in Paragraph :
            Count(ParagraphsOf(resp'.results), p) = Count(RowParagraphs, p)
        /\ db' = db]_vars
====
